---- MODULE Spec2Model ----
(***************************************************************************)
(* Two Flask services in front of a Redis store.                           *)
(*                                                                         *)
(*  - Task Service   (labs/monolithic-container/src/monolithic/app.py)     *)
(*  - Diagnostic Service                                                   *)
(*                   (labs/troubleshooting-multi-container/src/python-app/ *)
(*                    app.py)                                              *)
(*                                                                         *)
(* Every handler is modelled store call by store call: one action per      *)
(* Redis command it issues, local computation attached to the command that *)
(* follows it and the HTTP response attached to the last command.  A       *)
(* request occupies a slot of `reqs' from its first store call until a new *)
(* request replaces it; a finished slot holds the response.                *)
(*                                                                         *)
(* Python values: an optional value (None or x) is <<>> or <<x>>; a str    *)
(* holding a decimal identifier is its tuple of digits, so that str(), the *)
(* string ordering used by sorted() and key equality are those of Python.  *)
(***************************************************************************)
EXTENDS Integers, Sequences, FiniteSets

\* ------------------------------------------------------------------ bounds

\* Clients of the Task Service whose requests may overlap.
Clients == {"c1", "c2"}
\* The one client of the sequential specifications.
SeqClient == "c1"
\* Cap on task_counter under Spec, SpecSeq and SpecList.
MaxCounter == 2
MaxSeqCounter == 2
MaxListCounter == 10
\* Cap on the number of delete requests counted under SpecSeq.
MaxDeletes == 2
\* Clients of the Diagnostic Service and the cap on visit_counter.
DiagClients == {"d1", "d2", "d3"}
MaxVisits == 3
\* Titles a client may submit.
Titles == {"a", "b"}

\* ------------------------------------------------------------ Python values

None == <<>>
Some(x) == <<x>>

\* str(n) for n >= 0, as the tuple of its decimal digits.
RECURSIVE Str(_)
Str(n) == IF n < 10 THEN <<n>> ELSE Append(Str(n \div 10), n % 10)

\* int(s) of a digit string.
RECURSIVE IdValue(_)
IdValue(s) ==
    IF Len(s) = 0 THEN 0
    ELSE 10 * IdValue(SubSeq(s, 1, Len(s) - 1)) + s[Len(s)]

\* a < b for two str values (lexicographic, by code point).
RECURSIVE PyStrLess(_, _)
PyStrLess(a, b) ==
    IF Len(b) = 0 THEN FALSE
    ELSE IF Len(a) = 0 THEN TRUE
    ELSE IF a[1] # b[1] THEN a[1] < b[1]
    ELSE PyStrLess(Tail(a), Tail(b))

\* json.dumps / json.loads of a task dict {'title': ..., 'completed': ...}.
JsonDumps(task) == <<"title", task.title, "completed", task.completed>>
JsonLoads(s) == [title |-> s[2], completed |-> s[4]]

\* Faulty variant: `is not None' in place of truthiness.
TruthyStrNotNone(o) == o # None

\* Truthiness of an optional str: None and '' are falsy.
TruthyStr(o) == o # None /\ o[1] # ""

\* A JSON request body: None (no body), or Some(d) with d the dict, itself
\* given by its optional 'title' entry.
DictGetTitle(d) == d
TruthyDict(o) == o # None /\ o[1] # None

\* ----------------------------------------------------------------- domains

MaxId == IF MaxListCounter > MaxSeqCounter
         THEN (IF MaxListCounter > MaxCounter THEN MaxListCounter ELSE MaxCounter)
         ELSE (IF MaxSeqCounter > MaxCounter THEN MaxSeqCounter ELSE MaxCounter)

\* An identifier no create ever issued ("01"): the path segment of a toggle or
\* delete request is any string.
AlienId == <<0, 1>>
IssuedIds(cap) == {Str(i) : i \in 1..cap}
AllIds == IssuedIds(MaxId) \cup {AlienId}
ReqIds(cap) == IssuedIds(cap) \cup {AlienId}

FormInputs(titles) == {None, Some("")} \cup {Some(t) : t \in titles}
JsonInputs(titles) == {None} \cup {Some(d) : d \in FormInputs(titles)}

VARIABLES
    \* Task Service: the store
    task_counter,   \* key 'task_counter' (absent = 0)
    task_ids,       \* set 'task_ids'
    records,        \* keys 'task:<id>': None or the JSON text
    \* Task Service: requests
    reqs,           \* client -> the request it has in flight or its response
    \* Task Service: history
    issued,         \* identifiers returned by get_next_id, in order
    expect,         \* id -> None or the fields the task was created / toggled with
    removed,        \* ids whose record a delete request removed
    nDeleted,       \* number of delete requests
    togHist,        \* id -> completed values found by the last two toggles
    \* Diagnostic Service
    REDIS_HOST,     \* os.environ.get('REDIS_HOST'), once read
    proc,           \* "boot", "serving" or "exited"
    visit_counter,  \* key 'visit_counter' (absent = 0)
    dreqs,          \* client -> the request it has in flight or its response
    \* Diagnostic Service: history
    counts,         \* replies of the INCR commands, in the order executed
    incrFailed      \* whether an INCR call has raised

taskVars == <<task_counter, task_ids, records, reqs, issued, expect, removed,
              nDeleted, togHist>>
diagVars == <<REDIS_HOST, proc, visit_counter, dreqs, counts, incrFailed>>
vars == <<taskVars, diagVars>>

storeVars == <<task_counter, task_ids, records>>
histVars == <<issued, expect, removed, nDeleted, togHist>>

\* ----------------------------------------------------------------- requests

NoResp == [status |-> 0]
Idle == [op |-> "idle", pc |-> "idle", task_id |-> None, title |-> "",
         task_data |-> None, todo |-> {}, tasks |-> {}, resp |-> NoResp]

Free(c) == reqs[c].pc \in {"idle", "done"}
At(c, op, pc) == reqs[c].op = op /\ reqs[c].pc = pc

Done(op, resp) == [Idle EXCEPT !.op = op, !.pc = "done", !.resp = resp]

\* redirect(url_for('index'))
Redirect == [status |-> 302, location |-> "/"]

\* ------------------------------------------------------------ Redis commands

\* INCR: the new value, which is also the reply.
RedisIncr(v) == v + 1
RedisSet(kv, key, val) == [kv EXCEPT ![key] = val]
RedisGet(kv, key) == kv[key]
RedisDel(kv, key) == [kv EXCEPT ![key] = None]
RedisSadd(s, member) == s \cup {member}
RedisSrem(s, member) == s \ {member}
RedisSmembers(s) == s

\* --------------------------------------------------------------- get_tasks

\* sorted(tasks, key=lambda x: x.get('id', 0)): ids are str, distinct.
RECURSIVE SortedById(_)
SortedById(S) ==
    IF S = {} THEN <<>>
    ELSE LET m == CHOOSE t \in S : \A u \in S \ {t} : PyStrLess(t.id, u.id)
         IN  <<m>> \o SortedById(S \ {m})

\* Faulty variant: the stored completion state is not carried into the listed task.
LoadTaskDefaults(task_data, task_id) ==
    IF task_data # None
    THEN {[title |-> JsonLoads(task_data).title, completed |-> FALSE,
           id |-> task_id]}
    ELSE {}

\* The loop body of get_tasks for one task_id: the task to append, if any.
LoadTask(task_data, task_id) ==
    IF task_data # None
    THEN {[title |-> JsonLoads(task_data).title,
           completed |-> JsonLoads(task_data).completed,
           id |-> task_id]}
    ELSE {}

\* What each caller of get_tasks answers.
IndexResp(tasks) ==
    [status |-> 200, tasks |-> tasks, total_tasks |-> Len(tasks),
     completed_tasks |-> Cardinality({i \in 1..Len(tasks) : tasks[i].completed})]
ApiGetTasksResp(tasks) == [status |-> 200, tasks |-> tasks]
GetTasksResp(op, tasks) ==
    IF op = "index" THEN IndexResp(tasks) ELSE ApiGetTasksResp(tasks)

\* First store call of get_tasks: SMEMBERS.
GetTasksBegin(c, op) ==
    /\ Free(c)
    /\ LET ids == RedisSmembers(task_ids) IN
       reqs' = [reqs EXCEPT ![c] =
                  IF ids = {}
                  THEN Done(op, GetTasksResp(op, SortedById({})))
                  ELSE [Idle EXCEPT !.op = op, !.pc = "get", !.todo = ids]]
    /\ UNCHANGED storeVars

Index(c) == GetTasksBegin(c, "index")
ApiGetTasks(c) == GetTasksBegin(c, "api_get_tasks")

\* One iteration of the loop: GET task:<task_id>; after the last one, sort
\* and answer.
GetTasksGet(c) ==
    /\ reqs[c].pc = "get"
    /\ reqs[c].op \in {"index", "api_get_tasks"}
    /\ \E task_id \in reqs[c].todo :
         LET task_data == RedisGet(records, task_id)
             tasks == reqs[c].tasks \cup LoadTask(task_data, task_id)
             todo == reqs[c].todo \ {task_id}
         IN  reqs' = [reqs EXCEPT ![c] =
                        IF todo = {}
                        THEN Done(reqs[c].op,
                                  GetTasksResp(reqs[c].op, SortedById(tasks)))
                        ELSE [reqs[c] EXCEPT !.todo = todo, !.tasks = tasks]]
    /\ UNCHANGED storeVars

\* ------------------------------------------------------------- get_next_id

\* Faulty variant: the next identifier taken from the number of tasks in the set.
GetNextIdFromSize == Cardinality(task_ids) + 1

\* redis_client.incr('task_counter'): the value stored and returned.
GetNextId == RedisIncr(task_counter)

\* ---------------------------------------------------------- POST /tasks

NewTask(title) == [title |-> title, completed |-> FALSE]

\* The title check and, for a truthy title, task_id = str(get_next_id());
\* otherwise the handler answers `refused' without a store call.
CreateBegin(c, op, title, cap, refused) ==
    /\ Free(c)
    /\ IF TruthyStr(title)
       THEN /\ task_counter < cap
            /\ task_counter' = GetNextId
            /\ reqs' = [reqs EXCEPT ![c] =
                          [Idle EXCEPT !.op = op, !.pc = "set",
                                       !.task_id = Str(GetNextId),
                                       !.title = title[1]]]
       ELSE /\ reqs' = [reqs EXCEPT ![c] = Done(op, refused)]
            /\ UNCHANGED task_counter
    /\ UNCHANGED <<task_ids, records>>

\* Faulty variant: the record is not written before the identifier is added.
CreateSetNoWrite(c, op) ==
    /\ At(c, op, "set")
    /\ reqs' = [reqs EXCEPT ![c].pc = "sadd"]
    /\ UNCHANGED <<task_counter, task_ids, records>>

\* redis_client.set(f'task:{task_id}', json.dumps(task))
CreateSet(c, op) ==
    /\ At(c, op, "set")
    /\ records' = RedisSet(records, reqs[c].task_id,
                           JsonDumps(NewTask(reqs[c].title)))
    /\ reqs' = [reqs EXCEPT ![c].pc = "sadd"]
    /\ UNCHANGED <<task_counter, task_ids>>

\* redis_client.sadd('task_ids', task_id), then the response.
CreateSadd(c, op, resp) ==
    /\ At(c, op, "sadd")
    /\ task_ids' = RedisSadd(task_ids, reqs[c].task_id)
    /\ reqs' = [reqs EXCEPT ![c] = Done(op, resp)]
    /\ UNCHANGED <<task_counter, records>>

CreateTask(c, title, cap) ==
    CreateBegin(c, "create_task", title, cap, Redirect)
CreateTaskSet(c) == CreateSet(c, "create_task")
CreateTaskSadd(c) == CreateSadd(c, "create_task", Redirect)

\* ------------------------------------------------------- POST /api/tasks

TitleRequired == [status |-> 400, error |-> "Title required"]
Created(task_id, title) ==
    [status |-> 201, title |-> title, completed |-> FALSE, id |-> task_id]

\* `if data and data.get('title')': the title, when there is a truthy one.
ApiTitle(data) == IF TruthyDict(data) THEN DictGetTitle(data[1]) ELSE None

ApiCreateTask(c, data, cap) ==
    CreateBegin(c, "api_create_task", ApiTitle(data), cap, TitleRequired)
ApiCreateTaskSet(c) == CreateSet(c, "api_create_task")
ApiCreateTaskSadd(c) ==
    CreateSadd(c, "api_create_task", Created(reqs[c].task_id, reqs[c].title))

\* ------------------------------------------------ POST /tasks/<id>/toggle

\* Faulty variant: the task is marked completed instead of flipped.
ToggledSticky(task) == [task EXCEPT !.completed = TRUE]

\* task['completed'] = not task.get('completed', False)
Toggled(task) == [task EXCEPT !.completed = ~task.completed]

\* Faulty variant: no `if task_data' test; a missing record is taken as a new,
\* untitled task.
ToggleTaskUpsert(c, task_id) ==
    /\ Free(c)
    /\ LET task_data == RedisGet(records, task_id) IN
       reqs' = [reqs EXCEPT ![c] =
                  [Idle EXCEPT !.op = "toggle_task", !.pc = "set",
                               !.task_id = task_id,
                               !.task_data =
                                  IF task_data # None THEN task_data
                                  ELSE JsonDumps(NewTask(""))]]
    /\ UNCHANGED storeVars

\* redis_client.get(f'task:{task_id}') and the `if task_data' test.
ToggleTask(c, task_id) ==
    /\ Free(c)
    /\ LET task_data == RedisGet(records, task_id) IN
       reqs' = [reqs EXCEPT ![c] =
                  IF task_data # None
                  THEN [Idle EXCEPT !.op = "toggle_task", !.pc = "set",
                                    !.task_id = task_id,
                                    !.task_data = task_data]
                  ELSE Done("toggle_task", Redirect)]
    /\ UNCHANGED storeVars

\* redis_client.set(f'task:{task_id}', json.dumps(task)), then the redirect.
ToggleTaskSet(c) ==
    /\ At(c, "toggle_task", "set")
    /\ records' = RedisSet(records, reqs[c].task_id,
                           JsonDumps(Toggled(JsonLoads(reqs[c].task_data))))
    /\ reqs' = [reqs EXCEPT ![c] = Done("toggle_task", Redirect)]
    /\ UNCHANGED <<task_counter, task_ids>>

\* ------------------------------------------------ POST /tasks/<id>/delete

\* redis_client.delete(f'task:{task_id}')
DeleteTask(c, task_id) ==
    /\ Free(c)
    /\ records' = RedisDel(records, task_id)
    /\ reqs' = [reqs EXCEPT ![c] =
                  [Idle EXCEPT !.op = "delete_task", !.pc = "srem",
                               !.task_id = task_id]]
    /\ UNCHANGED <<task_counter, task_ids>>

\* Faulty variant: a delete also hands the last identifier back to the counter.
DeleteTaskSremDecr(c) ==
    /\ At(c, "delete_task", "srem")
    /\ task_ids' = RedisSrem(task_ids, reqs[c].task_id)
    /\ task_counter' = IF task_counter > 0 THEN task_counter - 1 ELSE 0
    /\ reqs' = [reqs EXCEPT ![c] = Done("delete_task", Redirect)]
    /\ UNCHANGED records

\* redis_client.srem('task_ids', task_id), then the redirect.
DeleteTaskSrem(c) ==
    /\ At(c, "delete_task", "srem")
    /\ task_ids' = RedisSrem(task_ids, reqs[c].task_id)
    /\ reqs' = [reqs EXCEPT ![c] = Done("delete_task", Redirect)]
    /\ UNCHANGED <<task_counter, records>>

\* -------------------------------------------------------- GET /api/health

\* What a call of the store client does when the store cannot serve it: it
\* raises redis.ConnectionError or another exception (redis.TimeoutError is
\* not a ConnectionError).
PingOutcomes == {"PONG", "ConnectionError", "TimeoutError"}

\* try: ping; 'healthy'  except: 'unhealthy'  (a bare except)
RedisStatus(ping) == IF ping = "PONG" THEN "healthy" ELSE "unhealthy"

\* Faulty variant: only redis.ConnectionError is caught; any other error escapes.
HealthRespNarrow(ping) ==
    IF ping \in {"PONG", "ConnectionError"}
    THEN [status |-> 200,
          json |-> [status |-> "running", redis |-> RedisStatus(ping),
                    container_type |-> "monolithic"]]
    ELSE [status |-> 500, exception |-> ping]

HealthResp(ping) ==
    [status |-> 200,
     json |-> [status |-> "running", redis |-> RedisStatus(ping),
               container_type |-> "monolithic"]]

HealthCheck(c, ping) ==
    /\ Free(c)
    /\ reqs' = [reqs EXCEPT ![c] = Done("health_check", HealthResp(ping))]
    /\ UNCHANGED storeVars

\* ------------------------------------------------- history (Task Service)
\* The history variables record what the requests did; no handler reads them.
\* Each is a function of the step taken, told by the slot that moved.

CreateOps == {"create_task", "api_create_task"}
StartsCreate(c) == Free(c) /\ reqs'[c].pc = "set" /\ reqs'[c].op \in CreateOps
WritesNew(c) ==
    reqs[c].pc = "set" /\ reqs[c].op \in CreateOps /\ reqs'[c].pc = "sadd"
WritesToggle(c) == At(c, "toggle_task", "set") /\ reqs'[c].pc = "done"
StartsDelete(c) == Free(c) /\ reqs'[c].pc = "srem"

ObsIssued ==
    issued' = IF \E c \in Clients : StartsCreate(c)
              THEN Append(issued,
                          reqs'[CHOOSE c \in Clients : StartsCreate(c)].task_id)
              ELSE issued

ObsExpect ==
    expect' =
      IF \E c \in Clients : WritesNew(c)
      THEN LET c == CHOOSE c \in Clients : WritesNew(c)
           IN  [expect EXCEPT ![reqs[c].task_id] =
                  Some([title |-> reqs[c].title, completed |-> FALSE])]
      ELSE IF \E c \in Clients : WritesToggle(c)
      THEN LET c == CHOOSE c \in Clients : WritesToggle(c)
           IN  [expect EXCEPT ![reqs[c].task_id] =
                  IF @ = None THEN None
                  ELSE Some([@[1] EXCEPT !.completed = ~@])]
      ELSE IF \E c \in Clients : StartsDelete(c)
      THEN LET c == CHOOSE c \in Clients : StartsDelete(c)
           IN  [expect EXCEPT ![reqs'[c].task_id] = None]
      ELSE expect

ObsRemoved ==
    removed' = removed \cup
               {k \in AllIds : records[k] # None /\ records'[k] = None}

ObsDeleted ==
    nDeleted' = IF \E c \in Clients : StartsDelete(c)
                THEN nDeleted + 1 ELSE nDeleted

LastTwo(s) == IF Len(s) > 2 THEN SubSeq(s, Len(s) - 1, Len(s)) ELSE s

ObsTogHist ==
    togHist' =
      IF \E c \in Clients : WritesToggle(c)
      THEN LET c == CHOOSE c \in Clients : WritesToggle(c)
           IN  [togHist EXCEPT ![reqs[c].task_id] =
                  LastTwo(Append(@, JsonLoads(reqs[c].task_data).completed))]
      ELSE togHist

\* ------------------------------------------------- Diagnostic Service
\* Every handler makes at most one store call, so a request is one step.

DIdle == [op |-> "idle", resp |-> NoResp]
DDone(op, resp) == [op |-> op, resp |-> resp]

\* Lines 8-20: read REDIS_HOST; without one, sys.exit(1) before the client is
\* created and before app.run.
Hosts == {None, Some(""), Some("redis")}
\* Faulty variant: `if REDIS_HOST is None'; an empty hostname is let through.
StartupNoneOnly(host) ==
    /\ proc = "boot"
    /\ REDIS_HOST' = host
    /\ proc' = IF host # None THEN "serving" ELSE "exited"
    /\ UNCHANGED <<visit_counter, dreqs, counts, incrFailed>>

Startup(host) ==
    /\ proc = "boot"
    /\ REDIS_HOST' = host
    /\ proc' = IF TruthyStr(host) THEN "serving" ELSE "exited"
    /\ UNCHANGED <<visit_counter, dreqs, counts, incrFailed>>

HomeResp ==
    [status |-> 200,
     json |-> [service |-> "Python Flask API", status |-> "running",
               redis_host |-> REDIS_HOST[1]]]

Home(d) ==
    /\ proc = "serving"
    /\ dreqs' = [dreqs EXCEPT ![d] = DDone("home", HomeResp)]
    /\ UNCHANGED <<REDIS_HOST, proc, visit_counter, counts, incrFailed>>

\* An exception no handler catches: Flask answers 500.
Unhandled(exc) == [status |-> 500, exception |-> exc]

\* try: ping; healthy, 200   except redis.ConnectionError: unhealthy, 503
DiagHealthResp(ping) ==
    IF ping = "PONG"
    THEN [status |-> 200, json |-> [status |-> "healthy", redis |-> "connected"]]
    ELSE IF ping = "ConnectionError"
    THEN [status |-> 503,
          json |-> [status |-> "unhealthy", redis |-> "disconnected"]]
    ELSE Unhandled(ping)

Health(d, ping) ==
    /\ proc = "serving"
    /\ dreqs' = [dreqs EXCEPT ![d] = DDone("health", DiagHealthResp(ping))]
    /\ UNCHANGED <<REDIS_HOST, proc, visit_counter, counts, incrFailed>>

\* What redis_client.incr('visit_counter') does: it replies; it raises before
\* the store ran the command; or the store ran the command and the connection
\* broke before the reply was read ("ReplyLost", raised as ConnectionError).
IncrOutcomes == {"OK", "ConnectionError", "ReplyLost", "TimeoutError"}
IncrExecuted(outcome) == outcome \in {"OK", "ReplyLost"}

\* Faulty variant: the value read before the increment is returned.
CounterRespStale(outcome, count) ==
    IF outcome = "OK" THEN [status |-> 200, json |-> [counter |-> count - 1]]
    ELSE IF outcome \in {"ConnectionError", "ReplyLost"}
    THEN [status |-> 503, json |-> [error |-> "ConnectionError"]]
    ELSE [status |-> 500, exception |-> outcome]

\* try: count = incr; {"counter": count}
\* except redis.ConnectionError as e: {"error": str(e)}, 503
CounterResp(outcome, count) ==
    IF outcome = "OK" THEN [status |-> 200, json |-> [counter |-> count]]
    ELSE IF outcome \in {"ConnectionError", "ReplyLost"}
    THEN [status |-> 503, json |-> [error |-> "ConnectionError"]]
    ELSE Unhandled(outcome)

Counter(d, outcome) ==
    /\ proc = "serving"
    /\ visit_counter < MaxVisits
    /\ visit_counter' = IF IncrExecuted(outcome)
                        THEN RedisIncr(visit_counter) ELSE visit_counter
    /\ dreqs' = [dreqs EXCEPT ![d] =
                   DDone("counter", CounterResp(outcome, RedisIncr(visit_counter)))]
    \* history
    /\ counts' = IF outcome = "OK"
                 THEN Append(counts, CounterResp(outcome,
                                       RedisIncr(visit_counter)).json.counter)
                 ELSE counts
    /\ incrFailed' = (incrFailed \/ outcome # "OK")
    /\ UNCHANGED <<REDIS_HOST, proc>>

\* ----------------------------------------------------------- specifications

Init ==
    /\ task_counter = 0
    /\ task_ids = {}
    /\ records = [k \in AllIds |-> None]
    /\ reqs = [c \in Clients |-> Idle]
    /\ issued = <<>>
    /\ expect = [k \in AllIds |-> None]
    /\ removed = {}
    /\ nDeleted = 0
    /\ togHist = [k \in AllIds |-> <<>>]
    /\ REDIS_HOST = None
    /\ proc = "boot"
    /\ visit_counter = 0
    /\ dreqs = [d \in DiagClients |-> DIdle]
    /\ counts = <<>>
    /\ incrFailed = FALSE

\* Spec: the writing requests of two clients, interleaved store call by store
\* call.  (The reading requests change nothing a writer reads.)  The history
\* kept is the identifiers issued and the records removed.
ObsSpec ==
    /\ ObsIssued /\ ObsRemoved
    /\ UNCHANGED <<expect, nDeleted, togHist, diagVars>>
Next ==
    \E c \in Clients :
      \/ \E title \in FormInputs({"a"}) :
           CreateTask(c, title, MaxCounter) /\ ObsSpec
      \/ CreateTaskSet(c) /\ ObsSpec
      \/ CreateTaskSadd(c) /\ ObsSpec
      \/ \E data \in JsonInputs({"a"}) :
           ApiCreateTask(c, data, MaxCounter) /\ ObsSpec
      \/ ApiCreateTaskSet(c) /\ ObsSpec
      \/ ApiCreateTaskSadd(c) /\ ObsSpec
      \/ \E task_id \in ReqIds(MaxCounter) : ToggleTask(c, task_id) /\ ObsSpec
      \/ ToggleTaskSet(c) /\ ObsSpec
      \/ \E task_id \in ReqIds(MaxCounter) : DeleteTask(c, task_id) /\ ObsSpec
      \/ DeleteTaskSrem(c) /\ ObsSpec
Spec == Init /\ [][Next]_vars

\* SpecSeq: one client, all requests; each runs to its response before the
\* next starts.
ObsSeq ==
    /\ ObsIssued /\ ObsExpect /\ ObsRemoved /\ ObsDeleted /\ ObsTogHist
    /\ UNCHANGED diagVars
NextSeq ==
    \/ \E title \in FormInputs(Titles) :
         CreateTask(SeqClient, title, MaxSeqCounter) /\ ObsSeq
    \/ CreateTaskSet(SeqClient) /\ ObsSeq
    \/ CreateTaskSadd(SeqClient) /\ ObsSeq
    \/ \E data \in JsonInputs(Titles) :
         ApiCreateTask(SeqClient, data, MaxSeqCounter) /\ ObsSeq
    \/ ApiCreateTaskSet(SeqClient) /\ ObsSeq
    \/ ApiCreateTaskSadd(SeqClient) /\ ObsSeq
    \/ \E task_id \in ReqIds(MaxSeqCounter) :
         ToggleTask(SeqClient, task_id) /\ ObsSeq
    \/ ToggleTaskSet(SeqClient) /\ ObsSeq
    \/ \E task_id \in ReqIds(MaxSeqCounter) :
         nDeleted < MaxDeletes /\ DeleteTask(SeqClient, task_id) /\ ObsSeq
    \/ DeleteTaskSrem(SeqClient) /\ ObsSeq
    \/ Index(SeqClient) /\ ObsSeq
    \/ ApiGetTasks(SeqClient) /\ ObsSeq
    \/ GetTasksGet(SeqClient) /\ ObsSeq
    \/ \E ping \in PingOutcomes : HealthCheck(SeqClient, ping) /\ ObsSeq
SpecSeq == Init /\ [][NextSeq]_vars

\* SpecList: one client creating tasks and listing them.
ObsNone == UNCHANGED <<histVars, diagVars>>
NextList ==
    \/ ApiCreateTask(SeqClient, Some(Some("a")), MaxListCounter) /\ ObsNone
    \/ ApiCreateTaskSet(SeqClient) /\ ObsNone
    \/ ApiCreateTaskSadd(SeqClient) /\ ObsNone
    \/ Index(SeqClient) /\ ObsNone
    \/ ApiGetTasks(SeqClient) /\ ObsNone
    \/ GetTasksGet(SeqClient) /\ ObsNone
SpecList == Init /\ [][NextList]_vars

\* SpecDiag: the Diagnostic Service process and its clients.
NextDiag ==
    \/ \E host \in Hosts : Startup(host) /\ UNCHANGED taskVars
    \/ \E d \in DiagClients :
         \/ Home(d) /\ UNCHANGED taskVars
         \/ \E ping \in PingOutcomes : Health(d, ping) /\ UNCHANGED taskVars
         \/ \E outcome \in IncrOutcomes : Counter(d, outcome) /\ UNCHANGED taskVars
SpecDiag == Init /\ [][NextDiag]_vars

\* SpecToggle: two clients creating tasks and toggling them, interleaved store
\* call by store call; no task is deleted.  The history kept is the
\* identifiers issued and, per task, its completed value flipped once for
\* each toggle written.
ObsToggle ==
    /\ ObsIssued /\ ObsExpect
    /\ UNCHANGED <<removed, nDeleted, togHist, diagVars>>
NextToggle ==
    \E c \in Clients :
      \/ \E title \in FormInputs({"a"}) :
           CreateTask(c, title, MaxCounter) /\ ObsToggle
      \/ CreateTaskSet(c) /\ ObsToggle
      \/ CreateTaskSadd(c) /\ ObsToggle
      \/ \E task_id \in ReqIds(MaxCounter) : ToggleTask(c, task_id) /\ ObsToggle
      \/ ToggleTaskSet(c) /\ ObsToggle
SpecToggle == Init /\ [][NextToggle]_vars

\* ================================================================ properties

ListOps == {"index", "api_get_tasks"}
\* Client c holds the answer of a listing request.
Listed(c) == reqs[c].pc = "done" /\ reqs[c].op \in ListOps
InFlight(c) == ~Free(c)

\* ---------------------------------------------------------------------- C1
\* C1: every identifier a creation is given is strictly greater, as a number,
\* than every identifier given to an earlier creation (so none is given
\* twice), under every interleaving of create, toggle and delete requests.
C1_IdsStrictlyIncrease ==
    \A i, j \in 1..Len(issued) :
        i < j => IdValue(issued[i]) < IdValue(issued[j])

\* Two creations overlap, each holding its own identifier, after a task was
\* deleted.
C1_Witness ==
    /\ \A c \in Clients : InFlight(c) /\ reqs[c].op \in CreateOps
    /\ Len(issued) >= 2
    /\ removed # {}

\* ---------------------------------------------------------------------- C3
\* C3 (as stated): in every reachable state, between the store calls of the
\* handlers included, every identifier in task_ids has a record.
C3_EveryMemberHasRecord == \A k \in task_ids : records[k] # None

\* C3 (amended): every identifier in task_ids has a record unless a delete
\* request has removed that identifier's record.
C3_MemberHasRecordUnlessDeleted ==
    \A k \in task_ids : records[k] # None \/ k \in removed

\* A delete request between its two store calls: the record is gone, the
\* identifier is still a member.
C3_Witness ==
    \E c \in Clients :
        /\ At(c, "delete_task", "srem")
        /\ reqs[c].task_id \in task_ids
        /\ records[reqs[c].task_id] = None

\* ---------------------------------------------------------------------- C2
Fields(t) == [title |-> t.title, completed |-> t.completed]
\* Every listed task carries the fields it was created or last toggled with,
\* and no task is listed twice.
ListedAsExpected(tasks) ==
    /\ \A i \in 1..Len(tasks) : expect[tasks[i].id] = Some(Fields(tasks[i]))
    /\ \A i, j \in 1..Len(tasks) : tasks[i].id = tasks[j].id => i = j

\* C2 (as stated): a listing after N creations and M deletions holds exactly
\* N - M records, each with the fields it was created or last toggled with.
C2_ListHasNMinusM ==
    Listed(SeqClient) =>
        /\ Len(reqs[SeqClient].resp.tasks) = Len(issued) - nDeleted
        /\ ListedAsExpected(reqs[SeqClient].resp.tasks)

\* C2 (amended): with requests served one after another, a listing after N
\* creations holds exactly N - D records, D the number of tasks a delete
\* request has removed (a delete of an identifier without a task removes
\* none), each with the fields it was created or last toggled with.
C2_ListHasCreatedMinusRemoved ==
    Listed(SeqClient) =>
        /\ Len(reqs[SeqClient].resp.tasks) = Len(issued) - Cardinality(removed)
        /\ ListedAsExpected(reqs[SeqClient].resp.tasks)

\* A listing after two creations, one removal and a toggle.
C2_Witness ==
    /\ Listed(SeqClient)
    /\ Len(issued) = 2
    /\ Cardinality(removed) = 1
    /\ Len(reqs[SeqClient].resp.tasks) = 1
    /\ reqs[SeqClient].resp.tasks[1].completed

\* ---------------------------------------------------------------------- C4
\* C4: with requests served one after another, after two toggles of a task
\* its completed value is the one the first of the two found.
C4_ToggleTwiceRestores ==
    \A k \in AllIds :
        (Len(togHist[k]) = 2 /\ records[k] # None)
            => JsonLoads(records[k]).completed = togHist[k][1]

\* A task toggled (at least) twice from completed = TRUE, back at TRUE.
C4_Witness ==
    \E k \in AllIds :
        /\ togHist[k] = <<TRUE, FALSE>>
        /\ records[k] # None
        /\ reqs[SeqClient] = Done("toggle_task", Redirect)

\* ---------------------------------------------------------------------- C5
Absent(k) == records[k] = None /\ k \notin task_ids

\* C5: each store call of a delete request for an identifier that has no
\* record and is not in the set leaves records, set and counter as they were;
\* the request ends in the redirect; and once a delete request has ended its
\* identifier has no record and is not in the set, so that a second delete
\* of it changes nothing.
C5_DeleteAbsentIsNoop ==
    [][\A k \in AllIds :
         /\ (Absent(k) /\ DeleteTask(SeqClient, k)) => UNCHANGED storeVars
         /\ (reqs[SeqClient].task_id = k /\ DeleteTaskSrem(SeqClient)) =>
              /\ Absent(k) => UNCHANGED storeVars
              /\ reqs'[SeqClient].pc = "done"
              /\ reqs'[SeqClient].resp = [status |-> 302, location |-> "/"]
              /\ records'[k] = None /\ k \notin task_ids'
      ]_vars

\* A delete request has ended, none has removed anything, and the tasks
\* created before are all there.
C5_Witness ==
    /\ reqs[SeqClient] = Done("delete_task", Redirect)
    /\ removed = {}
    /\ nDeleted = 2
    /\ Cardinality(task_ids) = 2
    /\ \A k \in task_ids : records[k] # None

\* ---------------------------------------------------------------------- C6
\* C6: a listing is in the order of the identifiers as numbers.
C6_ListedInNumericOrder ==
    Listed(SeqClient) =>
        \A i, j \in 1..Len(reqs[SeqClient].resp.tasks) :
            i < j => IdValue(reqs[SeqClient].resp.tasks[i].id)
                       < IdValue(reqs[SeqClient].resp.tasks[j].id)

\* ---------------------------------------------------------------------- C7
NonEmptyTitle(o) == o # None /\ o[1] # ""
JsonHasTitle(data) == data # None /\ NonEmptyTitle(data[1])
CreateInputs == FormInputs({"a"})
ApiCreateInputs == JsonInputs({"a"})

CounterReplies == {d \in DiagClients : dreqs[d].op = "counter"}

\* C8: as long as no call of the store has failed, the k-th GET /counter
\* returns k, the counter holds the number of requests served, and the values
\* the clients hold are pairwise distinct and at most the counter.
C8_CounterCountsRequests ==
    ~incrFailed =>
        /\ \A i \in 1..Len(counts) : counts[i] = i
        /\ visit_counter = Len(counts)
        /\ \A d \in CounterReplies :
             /\ dreqs[d].resp.status = 200
             /\ dreqs[d].resp.json.counter \in 1..visit_counter
        /\ \A d, e \in CounterReplies :
             dreqs[d].resp.json.counter = dreqs[e].resp.json.counter => d = e

\* Three clients have each been answered, with 1, 2 and 3.
C8_Witness ==
    /\ ~incrFailed
    /\ counts = <<1, 2, 3>>
    /\ CounterReplies = DiagClients
    /\ {dreqs[d].resp.json.counter : d \in DiagClients} = {1, 2, 3}

\* ---------------------------------------------------------------------- C9
\* C9: GET /api/health answers 200 with status 'running' and container_type
\* 'monolithic' whatever the ping does, with redis 'healthy' exactly when the
\* ping succeeded, and changes nothing in the store.
C9_HealthNeverFails ==
    [][\A ping \in PingOutcomes :
         HealthCheck(SeqClient, ping) =>
             /\ reqs'[SeqClient].pc = "done"
             /\ reqs'[SeqClient].resp =
                  [status |-> 200,
                   json |-> [status |-> "running",
                             redis |-> IF ping = "PONG" THEN "healthy"
                                       ELSE "unhealthy",
                             container_type |-> "monolithic"]]
             /\ UNCHANGED storeVars
      ]_vars

\* A health check answered 'unhealthy' while the store holds a task.
C9_Witness ==
    /\ reqs[SeqClient].op = "health_check"
    /\ reqs[SeqClient].resp.status = 200
    /\ reqs[SeqClient].resp.json.redis = "unhealthy"
    /\ task_ids # {}

\* --------------------------------------------------------------------- C10
\* C10: every answer of GET /health is healthy with 200 or unhealthy with
\* 503; a store that cannot be reached never fails the request.
C10_HealthDegradesNeverFails ==
    \A d \in DiagClients :
        dreqs[d].op = "health" =>
            \/ /\ dreqs[d].resp.status = 200
               /\ dreqs[d].resp.json.status = "healthy"
            \/ /\ dreqs[d].resp.status = 503
               /\ dreqs[d].resp.json.status = "unhealthy"

\* --------------------------------------------------------------------- C11
\* C11: a GET /counter whose store call fails answers 503 with an error
\* payload and leaves the stored counter as it was, so a GET /counter that
\* succeeds returns one more than the last value returned before it.
C11_FailedCounterLeavesCounter ==
    [][\A d \in DiagClients :
         /\ \A outcome \in IncrOutcomes \ {"OK"} :
              Counter(d, outcome) =>
                  /\ dreqs'[d].resp.status = 503
                  /\ "error" \in DOMAIN dreqs'[d].resp.json
                  /\ visit_counter' = visit_counter
         /\ (Counter(d, "OK") /\ counts # <<>>) =>
                dreqs'[d].resp.json.counter = counts[Len(counts)] + 1
      ]_vars

\* --------------------------------------------------------------------- C12
\* C12: with requests served one after another, a toggle request for an
\* identifier without a record ends at its lookup and leaves records, set and
\* counter as they were; one for an identifier with a record changes nothing
\* at its lookup, and its write leaves a record of that identifier with the
\* same title and the opposite completed value, every other record, the set
\* and the counter being as before.
C12_ToggleChangesOnlyCompleted ==
    [][\A k \in ReqIds(MaxSeqCounter) :
         /\ ToggleTask(SeqClient, k) =>
              /\ UNCHANGED storeVars
              /\ records[k] = None =>
                   reqs'[SeqClient] =
                     [Idle EXCEPT !.op = "toggle_task", !.pc = "done",
                                  !.resp = [status |-> 302, location |-> "/"]]
         /\ (reqs[SeqClient].task_id = k /\ ToggleTaskSet(SeqClient)) =>
              /\ records[k] # None
              /\ records'[k] = <<"title", records[k][2],
                                 "completed", ~records[k][4]>>
              /\ \A j \in AllIds \ {k} : records'[j] = records[j]
              /\ UNCHANGED <<task_ids, task_counter>>
      ]_vars

\* A toggle of task 2 has ended: its record is completed with its title kept,
\* task 1 is as created, and both are in the set.
C12_Witness ==
    /\ reqs[SeqClient].op = "toggle_task" /\ reqs[SeqClient].pc = "done"
    /\ togHist[Str(2)] = <<FALSE>> /\ togHist[Str(1)] = <<>>
    /\ records[Str(2)] = <<"title", "b", "completed", TRUE>>
    /\ records[Str(1)] = <<"title", "a", "completed", FALSE>>
    /\ task_ids = {Str(1), Str(2)}
    /\ task_counter = 2

\* --------------------------------------------------------------------- C13
\* C13: a process started with REDIS_HOST absent or empty has exited, and in
\* it no request was ever answered and no store command ever issued.
C13_NoHostNoService ==
    (proc # "boot" /\ (REDIS_HOST = None \/ REDIS_HOST = Some(""))) =>
        /\ proc = "exited"
        /\ \A d \in DiagClients : dreqs[d] = [op |-> "idle", resp |-> NoResp]
        /\ visit_counter = 0 /\ counts = <<>> /\ ~incrFailed

\* The process was started with REDIS_HOST set to the empty string.
C13_Witness == proc = "exited" /\ REDIS_HOST = Some("")

\* --------------------------------------------------------------------- C14
\* C14: whenever no request is in flight, an identifier is in the set exactly
\* when it has a record, whatever the interleaving of the create, toggle and
\* delete requests before.
C14_SetAgreesWithRecordsAtRest ==
    (\A c \in Clients : Free(c)) =>
        \A k \in AllIds : k \in task_ids <=> records[k] # None

\* --------------------------------------------------------------------- C15
\* C15: with no task ever deleted, whenever no request is in flight the
\* completed value of every task is its value at creation flipped once for
\* each toggle request that found the task, whatever their interleaving.
C15_NoToggleLost ==
    (\A c \in Clients : Free(c)) =>
        \A k \in AllIds :
            records[k] # None =>
                /\ expect[k] # None
                /\ records[k][4] = expect[k][1].completed

\* --------------------------------------------------------------------- C16
\* C16: from the empty store on, no step lowers the counter; after every step
\* each identifier in the set and each identifier with a record is a number
\* from 1 to the counter; a step that changes the counter is the start of a
\* create request given an identifier; and no store call of a toggle or
\* delete request, whatever its identifier, creates a record.
C16_CounterBoundsTaskData ==
    [][/\ task_counter' >= task_counter
       /\ \A k \in AllIds :
            (k \in task_ids' \/ records'[k] # None) =>
                IdValue(k) \in 1..task_counter'
       /\ task_counter' # task_counter =>
            \E c \in Clients :
                /\ reqs[c].pc \in {"idle", "done"}
                /\ reqs'[c].op \in {"create_task", "api_create_task"}
                /\ reqs'[c].pc = "set"
                /\ reqs'[c].task_id = Str(task_counter')
       /\ \A c \in Clients :
            (\/ \E k \in ReqIds(MaxCounter) : ToggleTask(c, k)
             \/ ToggleTaskSet(c)
             \/ \E k \in ReqIds(MaxCounter) : DeleteTask(c, k)
             \/ DeleteTaskSrem(c)) =>
                /\ task_counter' = task_counter
                /\ \A k \in AllIds : records[k] = None => records'[k] = None
      ]_vars

====
